---- MODULE Spec2Model ----
(***************************************************************************)
(* A model of podcast-to-text: the step pipeline (pipeline.py, steps/),    *)
(* the two transcription backends with their split-and-reassemble loops    *)
(* (transcriber.py, qwen_transcriber.py) and the text chunker              *)
(* (formatter.py).                                                         *)
(*                                                                         *)
(* Conventions.                                                            *)
(*  - A Python str is a sequence of one-character strings.  The three      *)
(*    full-width terminators are written "FW.", "FW!", "FW?" and the       *)
(*    ten-character marker "<asr_text>" is one element.                    *)
(*  - A Python Optional is None == << >> or Some(x) == << x >>.            *)
(*  - A time in seconds is held as an integer number of milliseconds       *)
(*    (seconds * 1000), SDK ticks are 100 ns units as in the SDK.          *)
(*  - Indices into a str are Python's, 0-based.                            *)
(***************************************************************************)
EXTENDS Integers, Sequences, FiniteSets, TLC

VARIABLES
    \* ---- Pipeline.run and the PipelineContext it threads --------------
    steps,          \* Pipeline.steps: the list of step names
    config,         \* ctx.config
    ctx,            \* the PipelineContext fields
    pc,             \* position of Pipeline.run
    idx,            \* 1-based index of the step entered last (0: none)
    console,        \* what Pipeline.run printed, in order
    raised,         \* the exception that left Pipeline.run, if any
    entered,        \* the calls step.run(ctx) made so far: [step, ctx]
    returned,       \* the calls that returned: [step, ctx], ctx the result
    thrown,         \* the calls that raised: [step, err]
    \* ---- the world outside -------------------------------------------
    audio,          \* the audio file: [duration_ms, size_mb]
    audio_exists,   \* the audio file is on disk
    text_file,      \* the content of the raw transcript file of --text
    writes,         \* every write_text to the output directory, in order
    \* ---- transcribe_audio / _transcribe_long_audio --------------------
    tstatus,        \* "none" | "running" | "returned" | "raised"
    segment_files,  \* the pieces split_audio exported: [start, end] in ms
    piece_files,    \* indices of the piece files now on disk
    temp_dir,       \* the mkdtemp directory exists
    next_piece,     \* 1-based index of the next piece of the for loop
    all_results,    \* all_results / all_segments
    time_offset,    \* time_offset (ms)
    origin,         \* for all_results[i]: the piece and the place in the
                    \* backend's answer it came from, and its raw start
    backend_log,    \* one entry per backend call: "speech" | "empty" | "error"
    requests,       \* every httpx.post sent, in order: [piece, outcome], piece 0
                    \* for the whole file, outcome HTTP_OK or the failure
    \* ---- transcribe_segment and the recognizer's callback thread ------
    seg_pc,         \* position of transcribe_segment: "idle" | "start" |
                    \* "polling" | "stopping" | "return" | "returned"
    seg_results,    \* the list `results`
    seg_done,       \* the flag `done`
    seg_ret,        \* what transcribe_segment returned, once it has
    sdk_session,    \* what the recognizer will do: [events, ending]
    sdk_next,       \* 1-based index of the next event it delivers
    sdk_phase,      \* "off" | "running" | "canceled" | "stopped"
    \* ---- split_text_into_chunks, iteration by iteration ---------------
    split_pc,       \* "idle" | "call" | "loop" | "returned"
    split_arg,      \* the call's arguments: [text, chunk_size]
    split_start,    \* the local `start`
    split_chunks,   \* the list `chunks`; the returned list once returned
    \* ---- a pure function under test ----------------------------------
    fn,             \* which function the harness applies
    arg,            \* its arguments
    ret,            \* its result
    called          \* it has been applied

vars == << steps, config, ctx, pc, idx, console, raised, entered, returned, thrown,
           audio, audio_exists, text_file, writes,
           tstatus, segment_files, piece_files, temp_dir, next_piece,
           all_results, time_offset, origin, backend_log, requests,
           seg_pc, seg_results, seg_done, seg_ret, sdk_session, sdk_next, sdk_phase,
           split_pc, split_arg, split_start, split_chunks,
           fn, arg, ret, called >>

pipelineVars == << steps, config, ctx, pc, idx, console, raised, entered, returned,
                   thrown, audio, audio_exists, text_file, writes >>

transcribeVars == << tstatus, segment_files, piece_files, temp_dir, next_piece,
                     all_results, time_offset, origin, backend_log, requests >>

segmentVars == << seg_pc, seg_results, seg_done, seg_ret,
                  sdk_session, sdk_next, sdk_phase >>

splitVars == << split_pc, split_arg, split_start, split_chunks >>

fnVars == << fn, arg, ret, called >>

----------------------------------------------------------------------------
\* Python values

None == << >>
Some(x) == << x >>
IsSome(o) == o # None
Get(o) == o[1]

Min(a, b) == IF a <= b THEN a ELSE b
Max(a, b) == IF a >= b THEN a ELSE b

\* text[a:b] for 0 <= a, b <= len(text)
Slice(text, a, b) == SubSeq(text, a + 1, b)

\* "".join(parts)
RECURSIVE Concat(_)
Concat(parts) ==
    IF parts = << >> THEN << >> ELSE Head(parts) \o Concat(Tail(parts))

\* sep.join(parts)
RECURSIVE Join(_, _)
Join(sep, parts) ==
    IF parts = << >> THEN << >>
    ELSE IF Len(parts) = 1 THEN parts[1]
    ELSE parts[1] \o sep \o Join(sep, Tail(parts))

RECURSIVE SeqSum(_)
SeqSum(s) == IF s = << >> THEN 0 ELSE Head(s) + SeqSum(Tail(s))

\* all sequences over S of length at most n
SeqsUpTo(S, n) == UNION { [1..k -> S] : k \in 0..n }

----------------------------------------------------------------------------
\* formatter.py: the text chunker

FW_STOP == "FW."
FW_EXCL == "FW!"
FW_QUESTION == "FW?"

\* the list the for loop of split_text_into_chunks walks, in its order
PUNCTS == << FW_STOP, FW_EXCL, FW_QUESTION, ".", "!", "?" >>

CHUNK_SIZE == 8000
SEARCH_WINDOW == 200

\* text.rfind(punct, lo, hi): the highest index in [lo, hi) holding punct, or -1
RFind(text, punct, lo, hi) ==
    LET hits == { i \in Max(lo, 0)..(Min(hi, Len(text)) - 1) : text[i + 1] = punct }
    IN IF hits = {} THEN -1 ELSE CHOOSE i \in hits : \A j \in hits : j <= i

\* the for loop over the terminators: the first terminator of the list whose
\* last occurrence in the window lies after start decides the cut
RECURSIVE PunctSplit(_, _, _, _, _)
PunctSplit(text, start, search_start, end, k) ==
    IF k > Len(PUNCTS) THEN end
    ELSE LET pos == RFind(text, PUNCTS[k], search_start, end)
         IN IF pos > start THEN pos + 1
            ELSE PunctSplit(text, start, search_start, end, k + 1)

\* the search goes back to the window's start, not only 200 characters
BestSplit_NoWindow(text, start, end) ==
    PunctSplit(text, start, start, end, 1)

\* the search for a terminator takes in the character at `end` as well
BestSplit_SearchPastEnd(text, start, end) ==
    PunctSplit(text, start, Max(start, end - SEARCH_WINDOW), end + 1, 1)

BestSplit(text, start, end) ==
    PunctSplit(text, start, Max(start, end - SEARCH_WINDOW), end, 1)

\* the append of a non-final iteration goes up to `end`, not to best_split
RECURSIVE ChunkLoop_AppendToEnd(_, _, _, _)
ChunkLoop_AppendToEnd(text, chunk_size, start, chunks) ==
    IF ~(start < Len(text)) THEN chunks
    ELSE LET end == start + chunk_size
         IN IF end >= Len(text)
            THEN Append(chunks, Slice(text, start, Len(text)))
            ELSE LET best_split == BestSplit(text, start, end)
                 IN ChunkLoop_AppendToEnd(text, chunk_size, best_split,
                                          Append(chunks, Slice(text, start, end)))

\* the while loop of split_text_into_chunks
RECURSIVE ChunkLoop(_, _, _, _)
ChunkLoop(text, chunk_size, start, chunks) ==
    IF ~(start < Len(text)) THEN chunks
    ELSE LET end == start + chunk_size
         IN IF end >= Len(text)
            THEN Append(chunks, Slice(text, start, Len(text)))
            ELSE LET best_split == BestSplit(text, start, end)
                 IN ChunkLoop(text, chunk_size, best_split,
                              Append(chunks, Slice(text, start, best_split)))

\* the early return for a short text is missing
split_text_into_chunks_NoEarlyReturn(text, chunk_size) ==
    ChunkLoop(text, chunk_size, 0, << >>)

split_text_into_chunks(text, chunk_size) ==
    IF Len(text) <= chunk_size THEN << text >>
    ELSE ChunkLoop(text, chunk_size, 0, << >>)

\* a segment longer than chunk_size is cut: its first chunk_size characters
\* become a chunk of their own and the rest opens the next buffer
RECURSIVE SegChunkLoop_SplitOversize(_, _, _, _, _, _)
SegChunkLoop_SplitOversize(segments, chunk_size, k, chunks, current_chunk, current_size) ==
    IF k > Len(segments)
    THEN IF current_chunk # << >> THEN Append(chunks, Concat(current_chunk))
         ELSE chunks
    ELSE LET text == segments[k].text
             flush == current_size + Len(text) > chunk_size /\ current_chunk # << >>
             flushed == IF flush THEN Append(chunks, Concat(current_chunk)) ELSE chunks
         IN IF Len(text) > chunk_size
            THEN SegChunkLoop_SplitOversize(segments, chunk_size, k + 1,
                     Append(flushed, Slice(text, 0, chunk_size)),
                     << Slice(text, chunk_size, Len(text)) >>,
                     Len(text) - chunk_size)
            ELSE SegChunkLoop_SplitOversize(segments, chunk_size, k + 1,
                     flushed,
                     IF flush THEN << text >> ELSE Append(current_chunk, text),
                     IF flush THEN Len(text) ELSE current_size + Len(text))

\* the for loop of split_into_chunks over the segments from the k-th on
RECURSIVE SegChunkLoop(_, _, _, _, _, _)
SegChunkLoop(segments, chunk_size, k, chunks, current_chunk, current_size) ==
    IF k > Len(segments)
    THEN IF current_chunk # << >> THEN Append(chunks, Concat(current_chunk))
         ELSE chunks
    ELSE LET text == segments[k].text
             flush == current_size + Len(text) > chunk_size /\ current_chunk # << >>
         IN SegChunkLoop(segments, chunk_size, k + 1,
                IF flush THEN Append(chunks, Concat(current_chunk)) ELSE chunks,
                IF flush THEN << text >> ELSE Append(current_chunk, text),
                IF flush THEN Len(text) ELSE current_size + Len(text))

split_into_chunks(segments, chunk_size) ==
    SegChunkLoop(segments, chunk_size, 1, << >>, << >>, 0)

----------------------------------------------------------------------------
\* transcriber.py, qwen_transcriber.py: the audio splitter

\* 15 minutes (offline SDK) and 10 minutes (HTTP), in milliseconds
SEGMENT_DURATION_MS == 900000
QWEN_SEGMENT_DURATION_MS == 600000
MAX_FILE_SIZE_MB == 25

\* list(range(start, stop, step)) for step > 0
RECURSIVE Range(_, _, _)
Range(start, stop, step) ==
    IF start >= stop THEN << >>
    ELSE << start >> \o Range(start + step, stop, step)

\* every piece but the first starts one window later than the piece before,
\* whatever the source's length: the min() against total_duration is missing
split_audio_NoClamp(total_duration, segment_duration_ms) ==
    LET starts == Range(0, total_duration, segment_duration_ms)
    IN [ num_segments |->
             (total_duration + segment_duration_ms - 1) \div segment_duration_ms,
         segments |-> [ i \in 1..Len(starts) |->
             [ start |-> starts[i], end |-> starts[i] + segment_duration_ms ] ] ]

\* split_audio: the pieces audio[start:end] it exports, each with the slice of
\* the source it holds, and the total it announces to the progress bar
split_audio(total_duration, segment_duration_ms) ==
    LET starts == Range(0, total_duration, segment_duration_ms)
    IN [ num_segments |->
             (total_duration + segment_duration_ms - 1) \div segment_duration_ms,
         segments |-> [ i \in 1..Len(starts) |->
             [ start |-> starts[i],
               end   |-> Min(starts[i] + segment_duration_ms, total_duration) ] ] ]

\* _split_audio of qwen_transcriber.py: the same loop, exporting mp3
qwen_split_audio(total_duration, segment_duration_ms) ==
    LET starts == Range(0, total_duration, segment_duration_ms)
    IN [ num_segments |->
             (total_duration + segment_duration_ms - 1) \div segment_duration_ms,
         segments |-> [ i \in 1..Len(starts) |->
             [ start |-> starts[i],
               end   |-> Min(starts[i] + segment_duration_ms, total_duration) ] ] ]

\* len(AudioSegment.from_file(segment_file)): the length of an exported piece
PieceLen(piece) == piece.end - piece.start

----------------------------------------------------------------------------
\* transcriber.py: the offline-SDK backend

TICKS_PER_SECOND == 10000000
MS_PER_SECOND == 1000

\* ticks / 10_000_000 seconds, held in milliseconds
TicksToMs(ticks) == ticks \div (TICKS_PER_SECOND \div MS_PER_SECOND)

\* end_seconds is computed from the duration alone, without the offset
recognized_callback_EndFromDuration(results, evt) ==
    IF evt.reason = "RecognizedSpeech"
    THEN Append(results, [ start |-> TicksToMs(evt.offset),
                           end   |-> TicksToMs(evt.duration),
                           text  |-> evt.text ])
    ELSE results

\* recognized_callback: what one recognized event does to `results`
recognized_callback(results, evt) ==
    IF evt.reason = "RecognizedSpeech"
    THEN Append(results, [ start |-> TicksToMs(evt.offset),
                           end   |-> TicksToMs(evt.offset + evt.duration),
                           text  |-> evt.text ])
    ELSE results

\* transcribe_segment on a session that ran to its stop event: the results
\* list after the session's recognized events, delivered in order
RECURSIVE transcribe_segment(_, _)
transcribe_segment(results, session) ==
    IF session = << >> THEN results
    ELSE transcribe_segment(recognized_callback(results, Head(session)), Tail(session))

\* The events a recognition session delivers.  An utterance lies inside the
\* audio it was recognised in and utterances come in the order they were
\* spoken.
MaxEvents == 2

SdkEvents ==
    { [ reason |-> "RecognizedSpeech", offset |-> 0, duration |-> 10000000,
        text |-> << "a" >> ],
      [ reason |-> "NoMatch", offset |-> 20000000, duration |-> 10000000,
        text |-> << >> ],
      [ reason |-> "RecognizedSpeech", offset |-> 50000000, duration |-> 20000000,
        text |-> << "b", "." >> ] }

Sessions(len_ms) ==
    { s \in SeqsUpTo(SdkEvents, MaxEvents) :
        /\ \A i \in 1..Len(s) : TicksToMs(s[i].offset + s[i].duration) <= len_ms
        /\ \A i \in 1..(Len(s) - 1) :
              s[i].offset + s[i].duration <= s[i + 1].offset }

ERR_SDK == "RuntimeError: speech SDK"

----------------------------------------------------------------------------
\* qwen_transcriber.py: the HTTP backend

MARKER == "<asr_text>"
Whitespace == { " ", "\n", "\t" }

RECURSIVE LStrip(_)
LStrip(text) ==
    IF text # << >> /\ Head(text) \in Whitespace THEN LStrip(Tail(text)) ELSE text

RECURSIVE RStrip(_)
RStrip(text) ==
    IF text # << >> /\ text[Len(text)] \in Whitespace
    THEN RStrip(SubSeq(text, 1, Len(text) - 1))
    ELSE text

\* str.strip()
Strip(text) == RStrip(LStrip(text))

\* the text after the last marker is taken, not the text after the first
clean_text_AfterLastMarker(text) ==
    LET hits == { i \in 1..Len(text) : text[i] = MARKER }
    IN IF hits # {}
       THEN LET last == CHOOSE i \in hits : \A j \in hits : j <= i
            IN Strip(SubSeq(text, last + 1, Len(text)))
       ELSE Strip(text)

\* _clean_text: re.search takes the leftmost marker, (.*)$ the rest of the text
clean_text(text) ==
    LET hits == { i \in 1..Len(text) : text[i] = MARKER }
    IN IF hits # {}
       THEN LET first == CHOOSE i \in hits : \A j \in hits : i <= j
            IN Strip(SubSeq(text, first + 1, Len(text)))
       ELSE Strip(text)

\* dict.get(key, default) on an entry whose keys may be absent
GetOr(o, default) == IF IsSome(o) THEN Get(o) ELSE default

\* the end of an entry is read from its "start" key
parse_response_EndFromStart(result) ==
    IF IsSome(result.segments)
    THEN LET segs == Get(result.segments)
         IN [ i \in 1..Len(segs) |->
                [ start |-> GetOr(segs[i].start, 0),
                  end   |-> GetOr(segs[i].start, 0),
                  text  |-> clean_text(GetOr(segs[i].text, << >>)) ] ]
    ELSE << [ start |-> 0, end |-> 0, text |-> clean_text(GetOr(result.text, << >>)) ] >>

\* _parse_response on the decoded JSON body
parse_response(result) ==
    IF IsSome(result.segments)
    THEN LET segs == Get(result.segments)
         IN [ i \in 1..Len(segs) |->
                [ start |-> GetOr(segs[i].start, 0),
                  end   |-> GetOr(segs[i].end, 0),
                  text  |-> clean_text(GetOr(segs[i].text, << >>)) ] ]
    ELSE << [ start |-> 0, end |-> 0, text |-> clean_text(GetOr(result.text, << >>)) ] >>

\* _transcribe_streaming: the lines of the event stream.  A line is held as
\* the prefix it starts with and what follows: the literal [DONE], text that
\* json.loads rejects, or a JSON object with its "choices" key (absent, or a
\* list of choices whose "delta" and whose delta's "content" may be absent).
DATA_PREFIX == "data: "
DISPLAY_WIDTH == 100

\* chunk["choices"][0].get("delta", {}).get("content", "") under the guard
\* `"choices" in chunk and chunk["choices"]`; nothing when the guard fails
DeltaContent(chunk) ==
    IF IsSome(chunk.choices) /\ Get(chunk.choices) # << >>
    THEN LET delta == GetOr(Get(chunk.choices)[1].delta, [ content |-> None ])
         IN GetOr(delta.content, << >>)
    ELSE << >>

\* the text shown while streaming: " " and the cleaned text, cut to 100
\* characters and "..." when longer
LiveText(display_text) ==
    IF Len(display_text) > DISPLAY_WIDTH
    THEN << " " >> \o Slice(display_text, 0, DISPLAY_WIDTH) \o << ".", ".", "." >>
    ELSE << " " >> \o display_text

\* the [DONE] line does not end the loop
StreamLine_IgnoresDone(state, line) ==
    IF state.done \/ line.prefix # DATA_PREFIX \/ line.kind # "json"
    THEN state
    ELSE LET content == DeltaContent(line)
             full_text == state.full_text \o content
         IN [ state EXCEPT !.full_text = full_text,
                           !.live = IF content # << >> /\ clean_text(full_text) # << >>
                                    THEN LiveText(clean_text(full_text)) ELSE @ ]

\* one iteration of `for line in response.iter_lines()`; done is the break
StreamLine(state, line) ==
    IF state.done \/ line.prefix # DATA_PREFIX THEN state
    ELSE IF line.kind = "done" THEN [ state EXCEPT !.done = TRUE ]
    ELSE IF line.kind = "malformed" THEN state
    ELSE LET content == DeltaContent(line)
             full_text == state.full_text \o content
         IN [ state EXCEPT !.full_text = full_text,
                           !.live = IF content # << >> /\ clean_text(full_text) # << >>
                                    THEN LiveText(clean_text(full_text)) ELSE @ ]

RECURSIVE StreamLoop(_, _)
StreamLoop(state, lines) ==
    IF lines = << >> THEN state
    ELSE StreamLoop(StreamLine(state, Head(lines)), Tail(lines))

\* _transcribe_streaming on a stream that was answered with a 2xx status:
\* the segments it returns and the last text it showed
transcribe_streaming(lines) ==
    LET final == StreamLoop([ full_text |-> << >>, live |-> << >>, done |-> FALSE ],
                            lines)
    IN [ segments |-> << [ start |-> 0, end |-> 0,
                           text |-> clean_text(final.full_text) ] >>,
         live |-> final.live ]

\* The bodies a server answers with: text only (with the language prefix and
\* the marker, or empty), or a list of timed entries whose keys may be absent.
HttpEntry(start, end) == [ start |-> start, end |-> end, text |-> Some(<< "a" >>) ]

HttpResponses ==
    { [ segments |-> None, text |-> Some(<< "zh", MARKER, "a", "." >>) ],
      [ segments |-> None, text |-> Some(<< >>) ],
      [ segments |-> Some(<< >>), text |-> None ],
      [ segments |-> Some(<< HttpEntry(Some(5000), Some(7000)) >>), text |-> None ],
      [ segments |-> Some(<< HttpEntry(Some(5000), None) >>), text |-> None ] }

\* How httpx.post / raise_for_status fail: no connection, no answer within
\* timeout=600, or an answer whose status is not a success (status 0: none).
HttpFailures ==
    { [ kind |-> "ConnectError", status |-> 0 ],
      [ kind |-> "TimeoutException", status |-> 0 ],
      [ kind |-> "HTTPStatusError", status |-> 404 ],
      [ kind |-> "HTTPStatusError", status |-> 500 ] }

ERR_CONNECT == "ValueError: Cannot connect to Qwen ASR at http://asr/v1/audio/transcriptions"
ERR_TIMEOUT == "ValueError: Qwen ASR request timed out"
ERR_STATUS_404 == "ValueError: Qwen ASR error: 404"
ERR_STATUS_500 == "ValueError: Qwen ASR error: 500"

\* a timeout is reported with the message of a failed connection
HttpError_TimeoutAsConnect(failure) ==
    CASE failure.kind = "ConnectError" -> ERR_CONNECT
      [] failure.kind = "TimeoutException" -> ERR_CONNECT
      [] failure.kind = "HTTPStatusError" ->
            IF failure.status = 404 THEN ERR_STATUS_404 ELSE ERR_STATUS_500

\* what the except clauses of _transcribe_non_streaming raise instead
HttpError(failure) ==
    CASE failure.kind = "ConnectError" -> ERR_CONNECT
      [] failure.kind = "TimeoutException" -> ERR_TIMEOUT
      [] failure.kind = "HTTPStatusError" ->
            IF failure.status = 404 THEN ERR_STATUS_404 ELSE ERR_STATUS_500

\* whether a backend answer carries any recognised text
Heard(segments) == IF \E i \in 1..Len(segments) : segments[i].text # << >>
                   THEN "speech" ELSE "empty"

----------------------------------------------------------------------------
\* config.py, pipeline.py: the configuration and the context

Configured(provider, keep) ==
    [ asr_provider |-> provider,
      speech_key |-> Some("key"), speech_region |-> Some("region"),
      qwen_asr_url |-> Some("http://asr"),
      openai_endpoint |-> Some("endpoint"), openai_key |-> Some("key"),
      openai_deployment |-> Some("deployment"),
      keep_audio |-> keep ]

Configs ==
    { Configured("azure", FALSE), Configured("azure", TRUE), Configured("qwen", FALSE),
      Configured("whisper", FALSE),
      [ Configured("azure", FALSE) EXCEPT !.speech_region = None ],
      [ Configured("qwen", FALSE) EXCEPT !.qwen_asr_url = None ],
      [ Configured("qwen", FALSE) EXCEPT !.openai_key = None ] }

ERR_SPEECH_CONFIG == "ValueError: AZURE_SPEECH_KEY and AZURE_SPEECH_REGION must be set"
ERR_QWEN_CONFIG == "ValueError: QWEN_ASR_URL must be set"
ERR_PROVIDER == "ValueError: Unknown ASR provider"
ERR_OPENAI_CONFIG == "ValueError: AZURE_OPENAI_ENDPOINT, AZURE_OPENAI_KEY and AZURE_OPENAI_DEPLOYMENT must be set"

\* Config.require_speech: the error it raises, or None
require_speech(c) ==
    IF c.asr_provider = "azure"
    THEN IF c.speech_key = None \/ c.speech_region = None
         THEN Some(ERR_SPEECH_CONFIG) ELSE None
    ELSE IF c.asr_provider = "qwen"
    THEN IF c.qwen_asr_url = None THEN Some(ERR_QWEN_CONFIG) ELSE None
    ELSE Some(ERR_PROVIDER)

\* Config.require_openai: the error it raises, or None
require_openai(c) ==
    IF c.openai_endpoint = None \/ c.openai_key = None \/ c.openai_deployment = None
    THEN Some(ERR_OPENAI_CONFIG) ELSE None

\* PipelineContext with every flow field at its default
NewContext ==
    [ source_url |-> None, audio_path |-> None, text_path |-> None,
      episode_title |-> None, segments |-> None, text |-> None,
      output_path |-> None ]

\* a Path: its stem (a str) and its suffix
AUDIO_FILE == [ stem |-> << "e", "p" >>, suffix |-> ".wav" ]
TEXT_FILE == [ stem |-> << "r", "a", "w" >>, suffix |-> ".txt" ]
SOURCE_URL == << "u", "r", "l" >>
\* the title download_podcast scrapes, with a character no file name may hold
EPISODE_TITLE == << "E", "p", ":", "1", " " >>
\* a title the caller put into the context
GIVEN_TITLE == << "T" >>

\* `if x:` on an Optional str or list
Truthy(o) == IsSome(o) /\ Get(o) # << >>

\* The sources a run is given.  The offline SDK splits by duration, the HTTP
\* backend by file size; a source's last piece holds TailMs milliseconds.
MaxPieces == 3
TailMs == 7000

AzureAudios ==
    { [ duration_ms |-> d, size_mb |-> 10 ] :
        d \in { TailMs, SEGMENT_DURATION_MS }
              \cup { k * SEGMENT_DURATION_MS + TailMs : k \in 1..(MaxPieces - 1) } }

QwenAudios ==
    { [ duration_ms |-> TailMs, size_mb |-> MAX_FILE_SIZE_MB ] }
    \cup { [ duration_ms |-> k * QWEN_SEGMENT_DURATION_MS + TailMs,
             size_mb |-> MAX_FILE_SIZE_MB + 1 ] : k \in 0..(MaxPieces - 1) }

Audios(provider) == IF provider = "qwen" THEN QwenAudios ELSE AzureAudios

NoAudio == [ duration_ms |-> 0, size_mb |-> 0 ]

TextFiles == { << >>, << "a", ".", "b" >> }

TranscribeIdle ==
    /\ tstatus = "none"
    /\ segment_files = << >>
    /\ piece_files = {}
    /\ temp_dir = FALSE
    /\ next_piece = 0
    /\ all_results = << >>
    /\ time_offset = 0
    /\ origin = << >>
    /\ backend_log = << >>
    /\ requests = << >>

\* no transcribe_segment call is looked at on its own
SegmentIdle ==
    /\ seg_pc = "idle"
    /\ seg_results = << >>
    /\ seg_done = FALSE
    /\ seg_ret = None
    /\ sdk_session = << >>
    /\ sdk_next = 0
    /\ sdk_phase = "off"

\* no split_text_into_chunks call is followed through its loop
SplitIdle ==
    /\ split_pc = "idle"
    /\ split_arg = << >>
    /\ split_start = 0
    /\ split_chunks = << >>

Formatters == { "Format", "Skip Format" }

Init ==
    /\ config \in Configs
    /\ \E f \in Formatters :
         \/ /\ steps = << "Download", "Transcribe", f, "Save", "Cleanup" >>
            /\ ctx \in { NewContext, [ NewContext EXCEPT !.source_url = Some(SOURCE_URL) ] }
            /\ audio \in Audios(config.asr_provider)
            /\ audio_exists = FALSE
            /\ text_file = << >>
         \/ /\ steps = << "Transcribe", f, "Save" >>
            /\ ctx \in { NewContext,
                        [ NewContext EXCEPT !.audio_path = Some(AUDIO_FILE) ],
                        [ NewContext EXCEPT !.audio_path = Some(AUDIO_FILE),
                                            !.episode_title = Some(GIVEN_TITLE) ] }
            /\ audio \in Audios(config.asr_provider)
            /\ audio_exists = TRUE
            /\ text_file = << >>
         \/ /\ steps = << f, "Save" >>
            /\ ctx \in { NewContext,
                        [ NewContext EXCEPT !.text_path = Some(TEXT_FILE) ],
                        [ NewContext EXCEPT !.text_path = Some(TEXT_FILE),
                                            !.episode_title = Some(GIVEN_TITLE) ] }
            /\ audio = NoAudio
            /\ audio_exists = FALSE
            /\ text_file \in TextFiles
    /\ pc = "not_started"
    /\ idx = 0
    /\ console = << >>
    /\ raised = None
    /\ entered = << >>
    /\ returned = << >>
    /\ thrown = << >>
    /\ writes = << >>
    /\ TranscribeIdle
    /\ SegmentIdle
    /\ SplitIdle
    /\ fn = "none" /\ arg = << >> /\ ret = << >> /\ called = FALSE

staticVars == << steps, config, audio, text_file >>

----------------------------------------------------------------------------
\* pipeline.py: Pipeline.run

\* the except clause prints and goes on to the next step: the raise is missing
PipelineExcept_Swallow(e) ==
    /\ console' = Append(console, [ kind |-> "error", step |-> steps[idx] ])
    /\ raised' = raised
    /\ pc' = IF idx = Len(steps) THEN "completed" ELSE "next"

\* the except clause: print the step's name and re-raise
PipelineExcept(e) ==
    /\ console' = Append(console, [ kind |-> "error", step |-> steps[idx] ])
    /\ raised' = Some(e)
    /\ pc' = "failed"

\* step.run(ctx) raises e
StepRaise(e) ==
    /\ thrown' = Append(thrown, [ step |-> idx, err |-> e ])
    /\ PipelineExcept(e)
    /\ UNCHANGED << ctx, returned, entered, idx >>

\* the step's result is dropped: the next step gets the context of before
StepReturn_DropResult(result) ==
    /\ returned' = Append(returned, [ step |-> idx, ctx |-> result ])
    /\ ctx' = ctx
    /\ pc' = IF idx = Len(steps) THEN "completed" ELSE "next"
    /\ UNCHANGED << console, raised, thrown, entered, idx >>

\* ctx = step.run(ctx) returns; the for loop goes on or run() returns ctx
StepReturn(result) ==
    /\ returned' = Append(returned, [ step |-> idx, ctx |-> result ])
    /\ ctx' = result
    /\ pc' = IF idx = Len(steps) THEN "completed" ELSE "next"
    /\ UNCHANGED << console, raised, thrown, entered, idx >>

\* the head of a for-loop iteration: print the header and call step.run(ctx)
StepBegin ==
    /\ pc \in { "not_started", "next" }
    /\ idx' = idx + 1
    /\ console' = Append(console, [ kind |-> "step", i |-> idx + 1,
                                    total |-> Len(steps), step |-> steps[idx + 1] ])
    /\ entered' = Append(entered, [ step |-> idx + 1, ctx |-> ctx ])
    /\ pc' = "step"
    /\ UNCHANGED << ctx, raised, returned, thrown, staticVars, audio_exists, writes,
                    transcribeVars, fnVars, segmentVars, splitVars >>

InStep(name) == pc = "step" /\ steps[idx] = name

----------------------------------------------------------------------------
\* steps/download.py

ERR_SOURCE_URL == "ValueError: source_url is required for DownloadStep"
ERR_DOWNLOAD == "FileNotFoundError: Downloaded audio not found"

\* DownloadStep.run; download_podcast succeeds or raises
DownloadRun ==
    /\ InStep("Download")
    /\ \/ /\ ~Truthy(ctx.source_url)
          /\ StepRaise(ERR_SOURCE_URL)
          /\ UNCHANGED audio_exists
       \/ /\ Truthy(ctx.source_url)
          /\ StepRaise(ERR_DOWNLOAD)
          /\ UNCHANGED audio_exists
       \/ /\ Truthy(ctx.source_url)
          /\ audio_exists' = TRUE
          /\ StepReturn([ ctx EXCEPT !.audio_path = Some(AUDIO_FILE),
                                     !.episode_title = Some(EPISODE_TITLE) ])
    /\ UNCHANGED << staticVars, writes, transcribeVars, fnVars, segmentVars, splitVars >>

----------------------------------------------------------------------------
\* steps/transcribe.py, transcriber.py, qwen_transcriber.py

ERR_AUDIO_PATH == "ValueError: audio_path is required for TranscribeStep"
ERR_NO_RESULTS == "ValueError: No transcription results"
ERR_DECODE == "CouldntDecodeError"

\* the title is set from the audio file's name whether or not there is one
TranscribeTail_OverwritesTitle(segments) ==
    IF segments = << >>
    THEN StepRaise(ERR_NO_RESULTS)
    ELSE StepReturn([ ctx EXCEPT
             !.segments = Some(segments),
             !.episode_title = Some(Get(ctx.audio_path).stem) ])

\* TranscribeStep.run after the backend returned `segments`
TranscribeTail(segments) ==
    IF segments = << >>
    THEN StepRaise(ERR_NO_RESULTS)
    ELSE StepReturn([ ctx EXCEPT
             !.segments = Some(segments),
             !.episode_title = IF Truthy(@) THEN @ ELSE Some(Get(ctx.audio_path).stem) ])

\* result["start"] += time_offset; result["end"] += time_offset
ShiftSegments(segment_results, offset) ==
    [ i \in 1..Len(segment_results) |->
        [ start |-> segment_results[i].start + offset,
          end   |-> segment_results[i].end + offset,
          text  |-> segment_results[i].text ] ]

\* the offset stays where it was: the += of the piece's length is missing
NextTimeOffset_Stuck(offset, piece, segment_results) == offset

\* the offset is set to the piece's length instead of growing by it
NextTimeOffset_NotAccumulated(offset, piece, segment_results) == PieceLen(piece)

\* a piece without results is skipped before the offset is updated
NextTimeOffset_SkipEmpty(offset, piece, segment_results) ==
    IF segment_results = << >> THEN offset ELSE offset + PieceLen(piece)

\* time_offset += len(seg_audio) / 1000.0, after the piece's segment_results
\* were merged and whatever they are
NextTimeOffset(offset, piece, segment_results) == offset + PieceLen(piece)

\* os.remove(segment_file) is missing
RemovePiece_Kept(files, k) == files

\* os.remove(segment_file) for the k-th piece
RemovePiece(files, k) == files \ { k }

\* response.raise_for_status() passed
HTTP_OK == [ kind |-> "ok", status |-> 200 ]

\* httpx.post was called for a piece (0: the whole file) and ended in outcome
Request(piece, outcome) ==
    requests' = Append(requests, [ piece |-> piece, outcome |-> outcome ])

\* where the segments of one backend answer came from
Origins(segment_results, k) ==
    [ i \in 1..Len(segment_results) |->
        [ piece |-> k, pos |-> i, start |-> segment_results[i].start,
          end |-> segment_results[i].end ] ]

\* the state of a transcription that ran on the whole file, without pieces
Direct(status, segments, heard) ==
    /\ tstatus' = status
    /\ all_results' = segments
    /\ origin' = Origins(segments, 1)
    /\ backend_log' = Append(backend_log, heard)
    /\ UNCHANGED << segment_files, piece_files, temp_dir, next_piece, time_offset >>

\* split_audio / _split_audio has exported the pieces into a new directory
Exported(pieces) ==
    /\ tstatus' = "running"
    /\ segment_files' = pieces
    /\ piece_files' = 1..Len(pieces)
    /\ temp_dir' = TRUE
    /\ next_piece' = 1
    /\ UNCHANGED << all_results, time_offset, origin, backend_log, requests >>

\* TranscribeStep.run up to the backend's first call: the checks, and then
\* either the transcription of the whole file or the split into pieces
TranscribeEnter ==
    /\ InStep("Transcribe") /\ tstatus = "none"
    /\ \/ /\ IsSome(require_speech(config))
          /\ StepRaise(Get(require_speech(config)))
          /\ UNCHANGED transcribeVars
       \/ /\ require_speech(config) = None /\ ~IsSome(ctx.audio_path)
          /\ StepRaise(ERR_AUDIO_PATH)
          /\ UNCHANGED transcribeVars
       \/ /\ require_speech(config) = None /\ IsSome(ctx.audio_path)
          /\ config.asr_provider = "azure"
          /\ \/ \* AudioSegment.from_file cannot decode the file
                /\ tstatus' = "raised"
                /\ StepRaise(ERR_DECODE)
                /\ UNCHANGED << segment_files, piece_files, temp_dir, next_piece,
                                all_results, time_offset, origin, backend_log,
                                requests >>
             \/ \* short audio: one session on the file itself, which fails
                /\ audio.duration_ms <= SEGMENT_DURATION_MS
                /\ Direct("raised", << >>, "error")
                /\ StepRaise(ERR_SDK)
                /\ UNCHANGED requests
             \/ \* short audio: one session on the file itself
                /\ audio.duration_ms <= SEGMENT_DURATION_MS
                /\ \E session \in Sessions(audio.duration_ms) :
                     LET segments == transcribe_segment(<< >>, session)
                     IN /\ Direct("returned", segments, Heard(segments))
                        /\ TranscribeTail(segments)
                /\ UNCHANGED requests
             \/ \* long audio
                /\ audio.duration_ms > SEGMENT_DURATION_MS
                /\ Exported(split_audio(audio.duration_ms, SEGMENT_DURATION_MS).segments)
                /\ UNCHANGED << ctx, pc, idx, console, raised, entered, returned, thrown >>
       \/ /\ require_speech(config) = None /\ IsSome(ctx.audio_path)
          /\ config.asr_provider = "qwen"
          /\ \/ \* the file fits: one request, which fails
                /\ ~(audio.size_mb > MAX_FILE_SIZE_MB)
                /\ \E failure \in HttpFailures :
                     /\ Direct("raised", << >>, "error")
                     /\ Request(0, failure)
                     /\ StepRaise(HttpError(failure))
             \/ \* the file fits: one request
                /\ ~(audio.size_mb > MAX_FILE_SIZE_MB)
                /\ \E response \in HttpResponses :
                     LET segments == parse_response(response)
                     IN /\ Direct("returned", segments, Heard(segments))
                        /\ TranscribeTail(segments)
                /\ Request(0, HTTP_OK)
             \/ \* the file is too large, and AudioSegment.from_file cannot decode it
                /\ audio.size_mb > MAX_FILE_SIZE_MB
                /\ tstatus' = "raised"
                /\ StepRaise(ERR_DECODE)
                /\ UNCHANGED << segment_files, piece_files, temp_dir, next_piece,
                                all_results, time_offset, origin, backend_log,
                                requests >>
             \/ \* the file is too large
                /\ audio.size_mb > MAX_FILE_SIZE_MB
                /\ Exported(qwen_split_audio(audio.duration_ms,
                                             QWEN_SEGMENT_DURATION_MS).segments)
                /\ UNCHANGED << ctx, pc, idx, console, raised, entered, returned, thrown >>
    /\ UNCHANGED << staticVars, audio_exists, writes, fnVars, segmentVars, splitVars >>

\* one iteration of the for loop over segment_files, in either backend: the
\* piece is transcribed, its segments are merged, its file is removed
TranscribePiece ==
    /\ InStep("Transcribe") /\ tstatus = "running"
    /\ next_piece <= Len(segment_files)
    /\ LET piece == segment_files[next_piece]
       IN \/ \* transcribe_segment raises
             /\ config.asr_provider = "azure"
             /\ tstatus' = "raised"
             /\ backend_log' = Append(backend_log, "error")
             /\ StepRaise(ERR_SDK)
             /\ UNCHANGED << segment_files, piece_files, temp_dir, next_piece,
                             all_results, time_offset, origin, requests >>
          \/ /\ config.asr_provider = "azure"
             /\ \E session \in Sessions(PieceLen(piece)) :
                  LET segment_results == transcribe_segment(<< >>, session)
                  IN /\ all_results' =
                            all_results \o ShiftSegments(segment_results, time_offset)
                     /\ origin' = origin \o Origins(segment_results, next_piece)
                     /\ backend_log' = Append(backend_log, Heard(segment_results))
                     /\ time_offset' = NextTimeOffset(time_offset, piece, segment_results)
             /\ piece_files' = RemovePiece(piece_files, next_piece)
             /\ next_piece' = next_piece + 1
             /\ UNCHANGED << tstatus, segment_files, temp_dir, requests >>
             /\ UNCHANGED << ctx, pc, idx, console, raised, entered, returned, thrown >>
          \/ \* _transcribe_non_streaming raises
             /\ config.asr_provider = "qwen"
             /\ \E failure \in HttpFailures :
                  /\ tstatus' = "raised"
                  /\ backend_log' = Append(backend_log, "error")
                  /\ Request(next_piece, failure)
                  /\ StepRaise(HttpError(failure))
             /\ UNCHANGED << segment_files, piece_files, temp_dir, next_piece,
                             all_results, time_offset, origin >>
          \/ /\ config.asr_provider = "qwen"
             /\ \E response \in HttpResponses :
                  LET segments == parse_response(response)
                  IN /\ all_results' = all_results \o segments
                     /\ origin' = origin \o Origins(segments, next_piece)
                     /\ backend_log' = Append(backend_log, Heard(segments))
             /\ Request(next_piece, HTTP_OK)
             /\ piece_files' = RemovePiece(piece_files, next_piece)
             /\ next_piece' = next_piece + 1
             /\ UNCHANGED << tstatus, segment_files, temp_dir, time_offset >>
             /\ UNCHANGED << ctx, pc, idx, console, raised, entered, returned, thrown >>
    /\ UNCHANGED << staticVars, audio_exists, writes, fnVars, segmentVars, splitVars >>

\* what _transcribe_long_audio returns: all the text in one zero-timed segment
CombinedSegment(segments) ==
    << [ start |-> 0, end |-> 0,
         text |-> Concat([ i \in 1..Len(segments) |-> segments[i].text ]) ] >>

\* after the last piece: os.rmdir in a try/except OSError, the return, and the
\* rest of TranscribeStep.run
TranscribeReturn ==
    /\ InStep("Transcribe") /\ tstatus = "running"
    /\ next_piece > Len(segment_files)
    /\ temp_dir' = IF segment_files # << >> /\ piece_files = {} THEN FALSE ELSE temp_dir
    /\ tstatus' = "returned"
    /\ TranscribeTail(IF config.asr_provider = "qwen"
                      THEN CombinedSegment(all_results) ELSE all_results)
    /\ UNCHANGED << segment_files, piece_files, next_piece, all_results, time_offset,
                    origin, backend_log, requests >>
    /\ UNCHANGED << staticVars, audio_exists, writes, fnVars, segmentVars, splitVars >>

----------------------------------------------------------------------------
\* steps/format.py, formatter.py

ERR_FORMAT_INPUT == "ValueError: segments or text_path required for FormatStep"
ERR_SKIP_INPUT == "ValueError: segments or text_path required"
ERR_OPENAI == "APIError: chat completion failed"

\* "".join(seg["text"] for seg in segments)
segments_to_text(segments) == Concat([ i \in 1..Len(segments) |-> segments[i].text ])

\* format_chunk: what the language model answers.  The model is free in what
\* it writes: here a heading followed by the chunk, or nothing at all.
LlmReplies == { "markdown", "nothing" }

format_chunk(text, reply) == IF reply = "markdown" THEN << "#" >> \o text ELSE << >>

\* the loop over the chunks and "\n\n".join(formatted_chunks)
FormatChunks(chunks, reply) ==
    Join(<< "\n", "\n" >>, [ i \in 1..Len(chunks) |-> format_chunk(chunks[i], reply) ])

format_transcript(segments, reply) ==
    FormatChunks(split_into_chunks(segments, CHUNK_SIZE), reply)

format_text(text, reply) ==
    FormatChunks(split_text_into_chunks(text, CHUNK_SIZE), reply)

\* FormatStep.run
FormatRun ==
    /\ InStep("Format")
    /\ \/ /\ IsSome(require_openai(config))
          /\ StepRaise(Get(require_openai(config)))
       \/ /\ require_openai(config) = None
          /\ Truthy(ctx.segments) \/ IsSome(ctx.text_path)
          /\ StepRaise(ERR_OPENAI)
       \/ /\ require_openai(config) = None
          /\ Truthy(ctx.segments)
          /\ \E reply \in LlmReplies :
               StepReturn([ ctx EXCEPT
                   !.text = Some(format_transcript(Get(ctx.segments), reply)) ])
       \/ /\ require_openai(config) = None
          /\ ~Truthy(ctx.segments) /\ IsSome(ctx.text_path)
          /\ \E reply \in LlmReplies :
               StepReturn([ ctx EXCEPT
                   !.text = Some(format_text(text_file, reply)),
                   !.episode_title =
                       IF Truthy(@) THEN @
                       ELSE Some(Get(ctx.text_path).stem
                                 \o << "_", "f", "o", "r", "m", "a", "t", "t", "e", "d" >>) ])
       \/ /\ require_openai(config) = None
          /\ ~Truthy(ctx.segments) /\ ~IsSome(ctx.text_path)
          /\ StepRaise(ERR_FORMAT_INPUT)
    /\ UNCHANGED << staticVars, audio_exists, writes, transcribeVars, fnVars, segmentVars, splitVars >>

\* SkipFormatStep.run
SkipFormatRun ==
    /\ InStep("Skip Format")
    /\ \/ /\ Truthy(ctx.segments)
          /\ StepReturn([ ctx EXCEPT !.text = Some(segments_to_text(Get(ctx.segments))) ])
       \/ /\ ~Truthy(ctx.segments) /\ IsSome(ctx.text_path)
          /\ StepReturn([ ctx EXCEPT
                 !.text = Some(text_file),
                 !.episode_title = IF Truthy(@) THEN @ ELSE Some(Get(ctx.text_path).stem) ])
       \/ /\ ~Truthy(ctx.segments) /\ ~IsSome(ctx.text_path)
          /\ StepRaise(ERR_SKIP_INPUT)
    /\ UNCHANGED << staticVars, audio_exists, writes, transcribeVars, fnVars, segmentVars, splitVars >>

----------------------------------------------------------------------------
\* steps/save.py, steps/cleanup.py

ERR_TEXT == "ValueError: text is required for SaveStep"
FILENAME_MAX == 100

InvalidFilenameChars == { "<", ">", ":", "\"", "/", "\\", "|", "?", "*" }

\* sanitize_filename: re.sub, then [:100], then strip()
sanitize_filename(title) ==
    LET safe == [ i \in 1..Len(title) |->
                    IF title[i] \in InvalidFilenameChars THEN "_" ELSE title[i] ]
    IN Strip(SubSeq(safe, 1, Min(Len(safe), FILENAME_MAX)))

\* the name under output_dir that SaveStep.run writes to
OutputFile(title) ==
    IF Truthy(title)
    THEN [ stem |-> sanitize_filename(Get(title)), suffix |-> ".md" ]
    ELSE [ stem |-> << "podcast_", "timestamp" >>, suffix |-> ".md" ]

\* the file is written before the text is looked at
SaveRun_WriteBeforeCheck ==
    /\ InStep("Save")
    /\ writes' = Append(writes, [ file |-> OutputFile(ctx.episode_title),
                                  text |-> GetOr(ctx.text, << >>) ])
    /\ \/ /\ ~Truthy(ctx.text)
          /\ StepRaise(ERR_TEXT)
       \/ /\ Truthy(ctx.text)
          /\ StepReturn([ ctx EXCEPT !.output_path = Some(OutputFile(ctx.episode_title)) ])
    /\ UNCHANGED << staticVars, audio_exists, transcribeVars, fnVars, segmentVars, splitVars >>

\* SaveStep.run
SaveRun ==
    /\ InStep("Save")
    /\ \/ /\ ~Truthy(ctx.text)
          /\ StepRaise(ERR_TEXT)
          /\ UNCHANGED writes
       \/ /\ Truthy(ctx.text)
          /\ writes' = Append(writes, [ file |-> OutputFile(ctx.episode_title),
                                        text |-> Get(ctx.text) ])
          /\ StepReturn([ ctx EXCEPT !.output_path = Some(OutputFile(ctx.episode_title)) ])
    /\ UNCHANGED << staticVars, audio_exists, transcribeVars, fnVars, segmentVars, splitVars >>

\* CleanupStep.run
CleanupRun ==
    /\ InStep("Cleanup")
    /\ audio_exists' =
           IF ~config.keep_audio /\ IsSome(ctx.audio_path) /\ audio_exists
           THEN FALSE ELSE audio_exists
    /\ StepReturn(ctx)
    /\ UNCHANGED << staticVars, writes, transcribeVars, fnVars, segmentVars, splitVars >>

----------------------------------------------------------------------------

Next ==
    \/ StepBegin
    \/ DownloadRun
    \/ TranscribeEnter
    \/ TranscribePiece
    \/ TranscribeReturn
    \/ FormatRun
    \/ SkipFormatRun
    \/ SaveRun
    \/ CleanupRun

Spec == Init /\ [][Next]_vars

----------------------------------------------------------------------------
\* The pure functions, applied to bounded inputs

MaxTextLen == 4
MaxChunkSize == 3
MaxDuration == 12
MaxWindow == 4

Alphabet == { "a", FW_STOP, "." }
Texts == SeqsUpTo(Alphabet, MaxTextLen)

\* texts longer than the search window: a run of plain characters between a
\* head and a tail of at most MaxAffix characters each
MaxAffix == 2
Pad(n) == [ i \in 1..n |-> "a" ]
LongTexts ==
    { head \o Pad(SEARCH_WINDOW - 1) \o tail :
        head \in SeqsUpTo(Alphabet, MaxAffix), tail \in SeqsUpTo(Alphabet, MaxAffix) }

\* segment lists: texts of 0 to 3 characters, no character used twice
MaxSegs == 3
SegTexts == { << >>, << "a" >>, << "b", "c" >>, << "d", "e", "f" >> }
SegLists == SeqsUpTo({ [ start |-> 0, end |-> 0, text |-> t ] : t \in SegTexts }, MaxSegs)
SegArgs == [ segments : SegLists, chunk_size : 1..MaxChunkSize ]

\* raw texts of the HTTP backend: letters, blanks and the marker
MaxRawLen == 4
RawTexts == SeqsUpTo({ "a", " ", MARKER }, MaxRawLen)
CleanArgs == [ text : RawTexts ]

\* decoded JSON bodies: a list of entries whose keys may be absent, a text
\* that may be absent, or both
MaxEntries == 2
BodyTexts == { None, Some(<< "a" >>), Some(<< " ", "b" >>), Some(<< "zh", MARKER, "c" >>) }
Entries == [ start : { None, Some(5000) }, end : { None, Some(7000) }, text : BodyTexts ]
ParseArgs ==
    [ result : [ segments : { None } \cup { Some(l) : l \in SeqsUpTo(Entries, MaxEntries) },
                 text : BodyTexts ] ]

\* event-stream lines: deltas (one with the marker, two with blanks at the
\* edge), a delta with empty content, chunks without choices, without a
\* delta or without content, a chunk with a second choice, text that is no
\* JSON, the [DONE] line, and a delta and a [DONE] without the "data: " prefix
MaxLines == 3

Delta(content) == [ delta |-> Some([ content |-> Some(content) ]) ]

JsonLine(prefix, choices) == [ prefix |-> prefix, kind |-> "json", choices |-> choices ]

StreamLines ==
    { JsonLine(DATA_PREFIX, Some(<< Delta(<< "zh", MARKER >>) >>)),
      JsonLine(DATA_PREFIX, Some(<< Delta(<< " ", "a" >>) >>)),
      JsonLine(DATA_PREFIX, Some(<< Delta(<< "b", " " >>) >>)),
      JsonLine(DATA_PREFIX, Some(<< Delta(<< >>) >>)),
      JsonLine(DATA_PREFIX, Some(<< Delta(<< "a" >>), Delta(<< "c" >>) >>)),
      JsonLine(DATA_PREFIX, None),
      JsonLine(DATA_PREFIX, Some(<< >>)),
      JsonLine(DATA_PREFIX, Some(<< [ delta |-> None ] >>)),
      JsonLine(DATA_PREFIX, Some(<< [ delta |-> Some([ content |-> None ]) ] >>)),
      JsonLine("", Some(<< Delta(<< "c" >>) >>)),
      [ prefix |-> DATA_PREFIX, kind |-> "malformed", choices |-> None ],
      [ prefix |-> DATA_PREFIX, kind |-> "done", choices |-> None ],
      [ prefix |-> "", kind |-> "done", choices |-> None ] }

StreamArgs == [ lines : SeqsUpTo(StreamLines, MaxLines) ]

ChunkArgs ==
    [ text : Texts, chunk_size : 1..MaxChunkSize ]
    \cup [ text : LongTexts, chunk_size : { SEARCH_WINDOW + 1, SEARCH_WINDOW + 2 } ]
SplitArgs == [ total_duration : 0..MaxDuration, segment_duration_ms : 1..MaxWindow ]

PipelineIdle ==
    /\ steps = << >>
    /\ config = << >>
    /\ ctx = << >>
    /\ pc = "not_started"
    /\ idx = 0
    /\ console = << >>
    /\ raised = None
    /\ entered = << >>
    /\ returned = << >>
    /\ thrown = << >>
    /\ audio = << >>
    /\ audio_exists = FALSE
    /\ text_file = << >>
    /\ writes = << >>

InitFn ==
    /\ PipelineIdle
    /\ TranscribeIdle
    /\ SegmentIdle
    /\ SplitIdle
    /\ called = FALSE
    /\ ret = << >>
    /\ \/ fn = "split_text_into_chunks" /\ arg \in ChunkArgs
       \/ fn = "split_audio" /\ arg \in SplitArgs
       \/ fn = "qwen_split_audio" /\ arg \in SplitArgs
       \/ fn = "split_into_chunks" /\ arg \in SegArgs
       \/ fn = "clean_text" /\ arg \in CleanArgs
       \/ fn = "parse_response" /\ arg \in ParseArgs
       \/ fn = "transcribe_streaming" /\ arg \in StreamArgs

Call_split_text_into_chunks ==
    /\ fn = "split_text_into_chunks" /\ ~called
    /\ ret' = split_text_into_chunks(arg.text, arg.chunk_size)
    /\ called' = TRUE
    /\ UNCHANGED << fn, arg, pipelineVars, transcribeVars, segmentVars, splitVars >>

Call_split_audio ==
    /\ fn = "split_audio" /\ ~called
    /\ ret' = split_audio(arg.total_duration, arg.segment_duration_ms)
    /\ called' = TRUE
    /\ UNCHANGED << fn, arg, pipelineVars, transcribeVars, segmentVars, splitVars >>

Call_qwen_split_audio ==
    /\ fn = "qwen_split_audio" /\ ~called
    /\ ret' = qwen_split_audio(arg.total_duration, arg.segment_duration_ms)
    /\ called' = TRUE
    /\ UNCHANGED << fn, arg, pipelineVars, transcribeVars, segmentVars, splitVars >>

Call_split_into_chunks ==
    /\ fn = "split_into_chunks" /\ ~called
    /\ ret' = split_into_chunks(arg.segments, arg.chunk_size)
    /\ called' = TRUE
    /\ UNCHANGED << fn, arg, pipelineVars, transcribeVars, segmentVars, splitVars >>

Call_clean_text ==
    /\ fn = "clean_text" /\ ~called
    /\ ret' = clean_text(arg.text)
    /\ called' = TRUE
    /\ UNCHANGED << fn, arg, pipelineVars, transcribeVars, segmentVars, splitVars >>

Call_parse_response ==
    /\ fn = "parse_response" /\ ~called
    /\ ret' = parse_response(arg.result)
    /\ called' = TRUE
    /\ UNCHANGED << fn, arg, pipelineVars, transcribeVars, segmentVars, splitVars >>

Call_transcribe_streaming ==
    /\ fn = "transcribe_streaming" /\ ~called
    /\ ret' = transcribe_streaming(arg.lines)
    /\ called' = TRUE
    /\ UNCHANGED << fn, arg, pipelineVars, transcribeVars, segmentVars, splitVars >>

NextFn ==
    \/ Call_split_text_into_chunks
    \/ Call_split_audio
    \/ Call_qwen_split_audio
    \/ Call_split_into_chunks
    \/ Call_clean_text
    \/ Call_parse_response
    \/ Call_transcribe_streaming

SpecFn == InitFn /\ [][NextFn]_vars

----------------------------------------------------------------------------
\* transcriber.py: transcribe_segment, the caller and the recognizer's
\* callback thread step by step

\* the handler forgets to set the flag
stopped_callback_Forgets(evt) == FALSE

\* stopped_callback: the value of `done` after the handler ran
stopped_callback(evt) == TRUE

\* How a session ends: a session-stopped event alone, or a canceled event
\* (end of the audio stream, or an error reported by the service) that the
\* recognizer follows with a session-stopped event.
Endings == { "SessionStopped", "EndOfStream", "Error" }

InitSeg ==
    /\ PipelineIdle
    /\ TranscribeIdle
    /\ fn = "none" /\ arg = << >> /\ ret = << >> /\ called = FALSE
    /\ SplitIdle
    /\ seg_pc = "start"
    /\ seg_results = << >>
    /\ seg_done = FALSE
    /\ seg_ret = None
    /\ sdk_session \in [ events : Sessions(TailMs), ending : Endings ]
    /\ sdk_next = 1
    /\ sdk_phase = "off"

\* speech_recognizer.start_continuous_recognition()
SegStart ==
    /\ seg_pc = "start"
    /\ seg_pc' = "polling"
    /\ sdk_phase' = "running"
    /\ UNCHANGED << seg_results, seg_done, seg_ret, sdk_session, sdk_next,
                    pipelineVars, transcribeVars, fnVars, splitVars >>

\* the recognizer delivers its next recognized event
SdkRecognized ==
    /\ sdk_phase = "running"
    /\ sdk_next <= Len(sdk_session.events)
    /\ seg_results' = recognized_callback(seg_results, sdk_session.events[sdk_next])
    /\ sdk_next' = sdk_next + 1
    /\ UNCHANGED << seg_pc, seg_done, seg_ret, sdk_session, sdk_phase,
                    pipelineVars, transcribeVars, fnVars, splitVars >>

\* the recognizer delivers a canceled event: at the end of the stream, or
\* at any moment when the service reports an error
SdkCanceled ==
    /\ sdk_phase = "running"
    /\ \/ sdk_session.ending = "Error"
       \/ sdk_session.ending = "EndOfStream" /\ sdk_next > Len(sdk_session.events)
    /\ seg_done' = stopped_callback([ kind |-> "canceled",
                                      reason |-> sdk_session.ending ])
    /\ sdk_phase' = "canceled"
    /\ UNCHANGED << seg_pc, seg_results, seg_ret, sdk_session, sdk_next,
                    pipelineVars, transcribeVars, fnVars, splitVars >>

\* the recognizer delivers the session-stopped event
SdkSessionStopped ==
    /\ \/ sdk_phase = "canceled"
       \/ /\ sdk_phase = "running"
          /\ sdk_session.ending = "SessionStopped"
          /\ sdk_next > Len(sdk_session.events)
    /\ seg_done' = stopped_callback([ kind |-> "session_stopped",
                                      reason |-> sdk_session.ending ])
    /\ sdk_phase' = "stopped"
    /\ UNCHANGED << seg_pc, seg_results, seg_ret, sdk_session, sdk_next,
                    pipelineVars, transcribeVars, fnVars, splitVars >>

\* while not done: time.sleep(0.5)
SegPoll ==
    /\ seg_pc = "polling"
    /\ seg_pc' = IF seg_done THEN "stopping" ELSE "polling"
    /\ UNCHANGED << seg_results, seg_done, seg_ret, sdk_session, sdk_next,
                    sdk_phase, pipelineVars, transcribeVars, fnVars, splitVars >>

\* speech_recognizer.stop_continuous_recognition()
SegStop ==
    /\ seg_pc = "stopping"
    /\ seg_pc' = "return"
    /\ sdk_phase' = "stopped"
    /\ UNCHANGED << seg_results, seg_done, seg_ret, sdk_session, sdk_next,
                    pipelineVars, transcribeVars, fnVars, splitVars >>

\* return results
SegReturn ==
    /\ seg_pc = "return"
    /\ seg_pc' = "returned"
    /\ seg_ret' = Some(seg_results)
    /\ UNCHANGED << seg_results, seg_done, sdk_session, sdk_next, sdk_phase,
                    pipelineVars, transcribeVars, fnVars, splitVars >>

NextSeg ==
    \/ SegStart
    \/ SdkRecognized
    \/ SdkCanceled
    \/ SdkSessionStopped
    \/ SegPoll
    \/ SegStop
    \/ SegReturn

\* The caller's thread is scheduled: it wakes from every sleep and goes on.
\* Nothing obliges the recognizer to deliver an event.
SpecSeg ==
    /\ InitSeg
    /\ [][NextSeg]_vars
    /\ WF_vars(SegStart)
    /\ WF_vars(SegPoll)
    /\ WF_vars(SegStop)
    /\ WF_vars(SegReturn)

----------------------------------------------------------------------------
\* formatter.py: split_text_into_chunks, one loop iteration per step

InitSplit ==
    /\ PipelineIdle
    /\ TranscribeIdle
    /\ SegmentIdle
    /\ fn = "none" /\ arg = << >> /\ ret = << >> /\ called = FALSE
    /\ split_pc = "call"
    /\ split_arg \in ChunkArgs
    /\ split_start = 0
    /\ split_chunks = << >>

\* if len(text) <= chunk_size: return [text]; else chunks = [], start = 0
SplitEnter ==
    /\ split_pc = "call"
    /\ IF Len(split_arg.text) <= split_arg.chunk_size
       THEN /\ split_pc' = "returned"
            /\ split_chunks' = << split_arg.text >>
       ELSE /\ split_pc' = "loop"
            /\ split_chunks' = << >>
    /\ split_start' = 0
    /\ UNCHANGED << split_arg, pipelineVars, transcribeVars, segmentVars, fnVars >>

\* one evaluation of `while start < len(text)` and the body it guards;
\* leaving the loop, by the condition or by break, is followed by the return
SplitIterate ==
    /\ split_pc = "loop"
    /\ LET text == split_arg.text
           end == split_start + split_arg.chunk_size
       IN IF ~(split_start < Len(text))
          THEN /\ split_pc' = "returned"
               /\ UNCHANGED << split_start, split_chunks >>
          ELSE IF end >= Len(text)
          THEN /\ split_chunks' = Append(split_chunks, Slice(text, split_start, Len(text)))
               /\ split_pc' = "returned"
               /\ UNCHANGED split_start
          ELSE LET best_split == BestSplit(text, split_start, end)
               IN /\ split_chunks' = Append(split_chunks,
                                            Slice(text, split_start, best_split))
                  /\ split_start' = best_split
                  /\ split_pc' = "loop"
    /\ UNCHANGED << split_arg, pipelineVars, transcribeVars, segmentVars, fnVars >>

NextSplit ==
    \/ SplitEnter
    \/ SplitIterate

\* one thread runs the call: a step that can be taken is taken
SpecSplit ==
    /\ InitSplit
    /\ [][NextSplit]_vars
    /\ WF_vars(NextSplit)

----------------------------------------------------------------------------
\* Claims about the pure functions

IsSplitCall == fn \in { "split_audio", "qwen_split_audio" } /\ called

\* C4: splitting a source of duration D with window W gives ceil(D / W) pieces
\* (the least n with n * W >= D), piece i covers [i*W, min((i+1)*W, D)), so the
\* pieces are contiguous, disjoint and in order, and their durations sum to D.
C4_SplitCoversSource ==
    IsSplitCall =>
        LET D == arg.total_duration
            W == arg.segment_duration_ms
            pieces == ret.segments
            n == Len(pieces)
        IN /\ n * W >= D
           /\ n > 0 => (n - 1) * W < D
           /\ ret.num_segments = n
           /\ \A i \in 1..n :
                /\ pieces[i].start = (i - 1) * W
                /\ pieces[i].end = Min(i * W, D)
                /\ pieces[i].start < pieces[i].end
           /\ \A i \in 1..(n - 1) : pieces[i].end = pieces[i + 1].start
           /\ SeqSum([ i \in 1..n |-> PieceLen(pieces[i]) ]) = D

\* a split whose last piece is shorter than the window, after two full ones
C4_Witness ==
    /\ IsSplitCall
    /\ Len(ret.segments) = 3
    /\ PieceLen(ret.segments[3]) < arg.segment_duration_ms

\* C9: the chunks of split_text_into_chunks, concatenated in order, are the text.
C9_ChunksRoundTrip ==
    (fn = "split_text_into_chunks" /\ called) => Concat(ret) = arg.text

\* a text cut after a terminator, short of the window's end
C9_Witness ==
    /\ fn = "split_text_into_chunks" /\ called
    /\ Len(ret) = 2
    /\ Len(ret[1]) < arg.chunk_size
    /\ ret[1][Len(ret[1])] = FW_STOP

\* C10: a text no longer than chunk_size comes back as one chunk, the text itself.
C10_ShortTextOneChunk ==
    (fn = "split_text_into_chunks" /\ called /\ Len(arg.text) <= arg.chunk_size)
        => ret = << arg.text >>

\* the empty text, which the while loop alone would turn into no chunk at all
C10_WitnessEmpty ==
    fn = "split_text_into_chunks" /\ called /\ arg.text = << >> /\ ret = << << >> >>

\* the sentence terminators, as a set
Terminators == { PUNCTS[i] : i \in 1..Len(PUNCTS) }

SetMax(S) == CHOOSE x \in S : \A y \in S : y <= x

\* where the k-th chunk of the result starts in the text
ChunkStart(k) == SeqSum([ j \in 1..(k - 1) |-> Len(ret[j]) ])

\* the places of the window [start, end) that hold a terminator of P, lie in
\* the window's last 200 characters and strictly after the window's start
Candidates(text, start, end, P) ==
    { i \in Max(start + 1, end - SEARCH_WINDOW)..(end - 1) : text[i + 1] \in P }

\* the first terminator, in the order of the list, that has a candidate
Preferred(text, start, end) ==
    LET having == { i \in 1..Len(PUNCTS) :
                      Candidates(text, start, end, { PUNCTS[i] }) # {} }
    IN PUNCTS[CHOOSE i \in having : \A j \in having : i <= j]

\* C11 as stated: every non-final window is cut right after the terminator
\* nearest to the window's end, of whatever kind, among those in the window's
\* last 200 characters and strictly after its start; without one, the cut is
\* exactly chunk_size characters after the window's start.
C11_CutAtNearestTerminator ==
    (fn = "split_text_into_chunks" /\ called) =>
        \A k \in 1..(Len(ret) - 1) :
            LET start == ChunkStart(k)
                end == start + arg.chunk_size
                cand == Candidates(arg.text, start, end, Terminators)
            IN start + Len(ret[k]) = IF cand # {} THEN SetMax(cand) + 1 ELSE end

\* C11 amended: every non-final window is cut right after the last occurrence,
\* in the window's last 200 characters and strictly after its start, of the
\* first terminator of the list (full-width stop, exclamation, question, then
\* the half-width ones) that occurs there; without one, the cut is exactly
\* chunk_size characters after the window's start.
C11_CutAtPreferredTerminator ==
    (fn = "split_text_into_chunks" /\ called) =>
        \A k \in 1..(Len(ret) - 1) :
            LET start == ChunkStart(k)
                end == start + arg.chunk_size
                cand == Candidates(arg.text, start, end, Terminators)
            IN start + Len(ret[k]) =
                  IF cand # {}
                  THEN SetMax(Candidates(arg.text, start, end,
                                         { Preferred(arg.text, start, end) })) + 1
                  ELSE end

\* a window cut after a full-width stop although a half-width one lies nearer
\* to the window's end
C11_Witness ==
    /\ fn = "split_text_into_chunks" /\ called
    /\ Len(ret) >= 2
    /\ ret[1][Len(ret[1])] = FW_STOP
    /\ \E i \in (Len(ret[1]) + 1)..arg.chunk_size : arg.text[i] = "."

\* a terminator strictly after the window's start but before its last 200
\* characters: the window is cut at chunk_size
C11_WitnessOutsideWindow ==
    /\ fn = "split_text_into_chunks" /\ called
    /\ Len(ret) >= 2
    /\ Len(ret[1]) = arg.chunk_size
    /\ \E i \in 2..(arg.chunk_size - SEARCH_WINDOW) : arg.text[i] \in Terminators

IsSegChunkCall == fn = "split_into_chunks" /\ called

\* the texts of the segments given to split_into_chunks
SegmentTexts == [ i \in 1..Len(arg.segments) |-> arg.segments[i].text ]

\* The ways to lay the chunks over the segments: cuts[j] is the last segment
\* of chunk j, chunk j holds the segments after cuts[j - 1] up to cuts[j], and
\* the last chunk ends with the last segment.
Cuts ==
    { b \in [ 1..Len(ret) -> 0..Len(arg.segments) ] :
        /\ \A j \in 1..(Len(ret) - 1) : b[j] <= b[j + 1]
        /\ IF Len(ret) = 0 THEN Len(arg.segments) = 0
           ELSE b[Len(ret)] = Len(arg.segments) }

RunFirst(b, j) == IF j = 1 THEN 1 ELSE b[j - 1] + 1
RunSize(b, j) == b[j] - RunFirst(b, j) + 1

\* every chunk is the concatenation of its run of segments
IsRunsOf(b) ==
    \A j \in 1..Len(ret) :
        ret[j] = Concat(SubSeq(SegmentTexts, RunFirst(b, j), b[j]))

\* C12: split_into_chunks never splits a segment's text: the chunks are the
\* concatenations of consecutive runs of whole segments, the runs following
\* one another and covering every segment once, also when a segment alone is
\* longer than chunk_size.
C12_SegmentsNeverSplit ==
    IsSegChunkCall => \E b \in Cuts : IsRunsOf(b)

\* a segment longer than chunk_size, whole in a chunk between two other chunks
C12_Witness ==
    /\ IsSegChunkCall
    /\ Len(ret) = 3
    /\ Len(ret[2]) > arg.chunk_size
    /\ ret[2] = arg.segments[2].text

\* the flush rule, for chunks laid over the segments as b says: inside a chunk
\* every segment after the first still fitted, and at every boundary the next
\* segment would have made the chunk before it exceed chunk_size
FlushRule(b) ==
    /\ IsRunsOf(b)
    /\ \A j \in 1..Len(ret) : RunSize(b, j) >= 1
    /\ \A j \in 1..Len(ret) :
          \A i \in (RunFirst(b, j) + 1)..b[j] :
              Len(Concat(SubSeq(SegmentTexts, RunFirst(b, j), i))) <= arg.chunk_size
    /\ \A j \in 1..(Len(ret) - 1) :
          Len(ret[j]) + Len(SegmentTexts[b[j] + 1]) > arg.chunk_size
    /\ \A j \in 1..Len(ret) : RunSize(b, j) >= 2 => Len(ret[j]) <= arg.chunk_size

\* C19 as stated: the buffer is flushed exactly when the next segment would
\* make it exceed chunk_size and it is not empty; every chunk of two or more
\* segments is at most chunk_size long, at every boundary the next segment
\* would have exceeded chunk_size, and no chunk is the empty string.
C19_FlushRuleNoEmptyChunk ==
    IsSegChunkCall =>
        \E b \in Cuts : FlushRule(b) /\ \A j \in 1..Len(ret) : ret[j] # << >>

\* What holds of C19 on every segment list: the flush rule, with every chunk
\* holding at least one whole segment; a chunk is the empty string exactly
\* when every segment in it has an empty text.
FlushRuleHolds ==
    IsSegChunkCall =>
        \E b \in Cuts :
            /\ FlushRule(b)
            /\ \A j \in 1..Len(ret) :
                  ret[j] = << >> <=>
                      \A i \in RunFirst(b, j)..b[j] : SegmentTexts[i] = << >>

\* a chunk of two segments that fills chunk_size exactly, flushed for a third
C19_Witness ==
    /\ IsSegChunkCall
    /\ Len(ret) = 2
    /\ Len(arg.segments) = 3
    /\ Len(ret[1]) = arg.chunk_size
    /\ ret[1] = arg.segments[1].text \o arg.segments[2].text
    /\ arg.segments[1].text # << >> /\ arg.segments[2].text # << >>

\* a chunk that is the empty string: a segment without text, flushed by the
\* segment after it
C19_WitnessEmptyChunk ==
    /\ IsSegChunkCall
    /\ Len(ret) = 2
    /\ ret[1] = << >>

\* the places of the marker in a raw text
MarkerAt(raw) == { i \in 1..Len(raw) : raw[i] = MARKER }

\* the raw text without its prefix up to and including the first marker
AfterFirstMarker(raw) ==
    SubSeq(raw, (CHOOSE i \in MarkerAt(raw) : \A j \in MarkerAt(raw) : i <= j) + 1, Len(raw))

\* out is body without the whitespace around it
IsTrimOf(out, body) ==
    /\ out # << >> => out[1] \notin Whitespace /\ out[Len(out)] \notin Whitespace
    /\ \E a \in 1..(Len(body) + 1) :
          /\ a + Len(out) - 1 <= Len(body)
          /\ out = SubSeq(body, a, a + Len(out) - 1)
          /\ \A i \in 1..Len(body) :
                (i < a \/ i > a + Len(out) - 1) => body[i] \in Whitespace

\* out is what the normalisation makes of raw: the text after the first
\* marker, or all of it without a marker, less the whitespace around it
IsCleanOf(out, raw) ==
    IsTrimOf(out, IF MarkerAt(raw) # {} THEN AfterFirstMarker(raw) ELSE raw)

\* C13 as stated: with the marker, the result is the text after the marker;
\* without it, the raw text unchanged.
C13_AfterMarkerElseUnchanged ==
    (fn = "clean_text" /\ called) =>
        IF MarkerAt(arg.text) # {}
        THEN \E i \in MarkerAt(arg.text) : ret = SubSeq(arg.text, i + 1, Len(arg.text))
        ELSE ret = arg.text

\* C13 amended: with the marker, the result is the text after the first
\* marker, less leading and trailing whitespace; without it, the raw text less
\* leading and trailing whitespace.
C13_AfterMarkerTrimmed ==
    (fn = "clean_text" /\ called) => IsCleanOf(ret, arg.text)

\* a raw text with two markers and a blank after the first
C13_Witness ==
    /\ fn = "clean_text" /\ called
    /\ arg.text = << "a", MARKER, " ", MARKER >>
    /\ ret = << MARKER >>

IsParseCall == fn = "parse_response" /\ called

\* C20 as stated: a body with a list of entries yields those entries in order
\* with their start, end and text as they are; a body with text only yields
\* one segment with start = end = 0 holding that text.
C20_ParsedVerbatim ==
    IsParseCall =>
        LET result == arg.result
        IN IF IsSome(result.segments)
           THEN LET segs == Get(result.segments)
                IN /\ Len(ret) = Len(segs)
                   /\ \A i \in 1..Len(segs) :
                         /\ IsSome(segs[i].start) => ret[i].start = Get(segs[i].start)
                         /\ IsSome(segs[i].end) => ret[i].end = Get(segs[i].end)
                         /\ IsSome(segs[i].text) => ret[i].text = Get(segs[i].text)
           ELSE /\ Len(ret) = 1
                /\ ret[1].start = 0 /\ ret[1].end = 0
                /\ IsSome(result.text) => ret[1].text = Get(result.text)

\* C20 amended: a body with a list of entries yields one segment per entry, in
\* order, with the entry's start and end (0 for one the entry omits) and the
\* entry's text normalised (empty if omitted); a body without a list yields
\* one segment with start = end = 0 holding the body's text normalised.
C20_ParsedNormalised ==
    IsParseCall =>
        LET result == arg.result
        IN IF IsSome(result.segments)
           THEN LET segs == Get(result.segments)
                IN /\ Len(ret) = Len(segs)
                   /\ \A i \in 1..Len(segs) :
                         /\ ret[i].start = IF IsSome(segs[i].start)
                                           THEN Get(segs[i].start) ELSE 0
                         /\ ret[i].end = IF IsSome(segs[i].end)
                                         THEN Get(segs[i].end) ELSE 0
                         /\ IsCleanOf(ret[i].text, IF IsSome(segs[i].text)
                                                   THEN Get(segs[i].text) ELSE << >>)
           ELSE /\ Len(ret) = 1
                /\ ret[1].start = 0 /\ ret[1].end = 0
                /\ IsCleanOf(ret[1].text, IF IsSome(result.text)
                                          THEN Get(result.text) ELSE << >>)

\* a body with two timed entries whose texts need the normalisation
C20_Witness ==
    /\ IsParseCall
    /\ IsSome(arg.result.segments)
    /\ Len(ret) = 2
    /\ ret[1] = [ start |-> 5000, end |-> 7000, text |-> << "b" >> ]
    /\ ret[2] = [ start |-> 0, end |-> 7000, text |-> << "c" >> ]

\* a body with text only
C20_WitnessTextOnly ==
    /\ IsParseCall
    /\ arg.result.segments = None
    /\ arg.result.text = Some(<< "zh", MARKER, "c" >>)
    /\ ret = << [ start |-> 0, end |-> 0, text |-> << "c" >> ] >>

----------------------------------------------------------------------------
\* Claims about a pipeline run

\* the step headers Pipeline.run printed, in order
ConsoleSteps == SelectSeq(console, LAMBDA line : line.kind = "step")

\* C1: when a step raises, the run halts there: no later step is entered, the
\* error that leaves run() is the one the step raised, and the last line printed
\* names the step that failed.
C1_HaltOnError ==
    thrown # << >> =>
        /\ pc = "failed"
        /\ Len(thrown) = 1
        /\ thrown[1].step = idx
        /\ Len(entered) = idx
        /\ Len(ConsoleSteps) = idx
        /\ raised = Some(thrown[1].err)
        /\ console[Len(console)].kind = "error"
        /\ console[Len(console)].step = steps[idx]

\* a run whose second step failed with later steps still to come
C1_Witness ==
    /\ pc = "failed"
    /\ idx = 2
    /\ Len(steps) = 5
    /\ raised = Some(ERR_NO_RESULTS)

\* C2: steps are entered in list order and at most once each, step i+1 is
\* entered only after step i returned and is given the context step i
\* returned, and a completed run has entered and left every step once.
C2_SequentialOnce ==
    /\ Len(entered) = idx
    /\ \A i \in 1..Len(entered) : entered[i].step = i
    /\ \A i \in 1..Len(ConsoleSteps) :
          ConsoleSteps[i].i = i /\ ConsoleSteps[i].step = steps[i]
    /\ Len(ConsoleSteps) = Len(entered)
    /\ \A i \in 1..Len(returned) : returned[i].step = i
    /\ Len(returned) <= Len(entered)
    /\ Len(entered) <= Len(returned) + 1
    /\ \A i \in 2..Len(entered) : entered[i].ctx = returned[i - 1].ctx
    /\ pc = "completed" =>
          /\ Len(entered) = Len(steps)
          /\ Len(returned) = Len(steps)
          /\ ctx = returned[Len(steps)].ctx

\* a completed run of five steps, each of which changed what the next one saw
C2_Witness ==
    /\ pc = "completed"
    /\ Len(steps) = 5
    /\ \A i \in 1..4 : entered[i].ctx # returned[i].ctx

\* a transcription of the offline-SDK backend that went through split_audio
SplitAzure == steps # << >> /\ config.asr_provider = "azure" /\ segment_files # << >>

\* the sum of the durations of the pieces before the k-th
DurationBefore(k) == SeqSum([ j \in 1..(k - 1) |-> PieceLen(segment_files[j]) ])

\* the transcript handed to the rest of the pipeline, once there is one
Transcript == IF IsSome(ctx.segments) THEN Get(ctx.segments) ELSE << >>

\* C3: in a split transcription every segment that came from piece k starts at
\* or after the sum of the durations of the pieces before k, while the loop
\* runs and in the transcript returned.
C3_ReassemblyOffset ==
    SplitAzure =>
        /\ Len(all_results) = Len(origin)
        /\ \A i \in 1..Len(all_results) :
              all_results[i].start >= DurationBefore(origin[i].piece)
        /\ IsSome(ctx.segments) => Transcript = all_results

\* a returned transcript with a segment of the third piece
C3_Witness ==
    /\ SplitAzure
    /\ IsSome(ctx.segments)
    /\ \E i \in 1..Len(Transcript) :
          origin[i].piece = 3 /\ Transcript[i].start >= 2 * SEGMENT_DURATION_MS

\* C5: the segments of a split transcription are in non-decreasing order of
\* start, pieces in their order and, within a piece, the backend's order.
C5_OrderedByStart ==
    SplitAzure =>
        /\ \A i, j \in 1..Len(all_results) :
              i < j =>
                 /\ all_results[i].start <= all_results[j].start
                 /\ origin[i].piece <= origin[j].piece
                 /\ origin[i].piece = origin[j].piece => origin[i].pos < origin[j].pos
        /\ \A i \in 1..Len(all_results) : origin[i].start <= all_results[i].start
        /\ IsSome(ctx.segments) =>
              \A i \in 1..(Len(Transcript) - 1) :
                 Transcript[i].start <= Transcript[i + 1].start

\* a returned transcript with two segments of one piece and one of a later piece
C5_Witness ==
    /\ SplitAzure
    /\ IsSome(ctx.segments)
    /\ \E i, j, k \in 1..Len(Transcript) :
          /\ i < j /\ j < k
          /\ origin[i].piece = origin[j].piece
          /\ origin[j].piece < origin[k].piece

\* C6: every segment a backend returned has start <= end.
C6_StartLeEnd ==
    /\ \A i \in 1..Len(all_results) : all_results[i].start <= all_results[i].end
    /\ \A i \in 1..Len(Transcript) : Transcript[i].start <= Transcript[i].end

\* the backend answered for every piece and never with any recognised text
NothingRecognised ==
    tstatus = "returned" /\ \A i \in 1..Len(backend_log) : backend_log[i] = "empty"

\* C7: when the backend has no recognised text for any piece, the run fails at
\* the Transcribe step with "No transcription results" and nothing is written.
C7_NoResultFails ==
    NothingRecognised
        => /\ pc = "failed"
           /\ steps[idx] = "Transcribe"
           /\ raised = Some(ERR_NO_RESULTS)
           /\ writes = << >>

\* C7, its second half alone: no recognised text, no write to the output.
C7_NothingWritten == NothingRecognised => writes = << >>

\* C8: when the transcription of a piece raises, no piece file and no temporary
\* directory is left by the time the run has failed.
C8_NoPieceOutlivesFailure ==
    (pc = "failed" /\ tstatus = "raised" /\ segment_files # << >>)
        => piece_files = {} /\ ~temp_dir

\* the failure kind that an error leaving the run stands for, and the status
\* it carries
FailureKind(err) ==
    CASE err = ERR_CONNECT -> [ kind |-> "BackendUnreachable", status |-> 0 ]
      [] err = ERR_TIMEOUT -> [ kind |-> "BackendTimeout", status |-> 0 ]
      [] err = ERR_STATUS_404 -> [ kind |-> "BackendRejected", status |-> 404 ]
      [] err = ERR_STATUS_500 -> [ kind |-> "BackendRejected", status |-> 500 ]
      [] OTHER -> [ kind |-> "other", status |-> 0 ]

\* the failure kind the claim gives to an outcome of the request
ExpectedKind(outcome) ==
    CASE outcome.kind = "ConnectError" -> "BackendUnreachable"
      [] outcome.kind = "TimeoutException" -> "BackendTimeout"
      [] outcome.kind = "HTTPStatusError" -> "BackendRejected"

\* C14: a request that fails to connect, times out or is answered with a
\* non-success status ends the run with the failure of its own kind (and that
\* status), never with a result: it was the only request for its audio, none
\* was sent after it, and the error that leaves the run is the one raised.
C14_HttpFailureKinds ==
    \A i \in 1..Len(requests) :
        requests[i].outcome.kind # "ok" =>
            /\ i = Len(requests)
            /\ Cardinality({ j \in 1..Len(requests) :
                                requests[j].piece = requests[i].piece }) = 1
            /\ tstatus = "raised" /\ pc = "failed" /\ steps[idx] = "Transcribe"
            /\ IsSome(raised)
            /\ FailureKind(Get(raised)).kind = ExpectedKind(requests[i].outcome)
            /\ FailureKind(Get(raised)).status = requests[i].outcome.status
            /\ thrown = << [ step |-> idx, err |-> Get(raised) ] >>
            /\ ctx.segments = None
            /\ writes = << >>

\* the request for the second piece of a large file is answered with 404
C14_Witness ==
    /\ Len(requests) = 2
    /\ requests[1].outcome = HTTP_OK
    /\ requests[2] = [ piece |-> 2,
                       outcome |-> [ kind |-> "HTTPStatusError", status |-> 404 ] ]
    /\ raised = Some(ERR_STATUS_404)

\* a transcription that went through split_audio or _split_audio
SplitRun == steps # << >> /\ segment_files # << >>

\* C15: on both backends, every segment the backend returned for piece k is in
\* the transcript with its start and its end increased by exactly the sum of
\* the durations of the pieces before k.
C15_ExactOffsetBothBackends ==
    (SplitRun /\ tstatus = "returned" /\ IsSome(ctx.segments)) =>
        \A i \in 1..Len(origin) :
            \E j \in 1..Len(Transcript) :
                /\ Transcript[j].start =
                       origin[i].start + DurationBefore(origin[i].piece)
                /\ Transcript[j].end =
                       origin[i].end + DurationBefore(origin[i].piece)
                /\ Transcript[j].text = all_results[i].text

\* the place of the Save step in the list of steps
SaveIndex == CHOOSE k \in 1..Len(steps) : steps[k] = "Save"

\* C16: the output is written at most once, and only by a Save step that was
\* handed a non-empty text after every step before it returned; a run that
\* failed at Download, Transcribe, Format or Skip Format, or whose Save step
\* was handed an empty text, has written nothing and output_path is unset.
C16_NoWriteBeforeSuccess ==
    /\ Len(writes) <= 1
    /\ writes # << >> =>
          /\ Len(entered) >= SaveIndex
          /\ \A j \in 1..(SaveIndex - 1) : returned[j].step = j
          /\ thrown = << >>
          /\ Truthy(entered[SaveIndex].ctx.text)
          /\ writes[1].text = Get(entered[SaveIndex].ctx.text)
          /\ ctx.output_path = Some(writes[1].file)
    /\ writes = << >> => ctx.output_path = None
    /\ pc = "failed" => writes = << >> /\ ctx.output_path = None
    /\ (Len(entered) >= SaveIndex /\ ~Truthy(entered[SaveIndex].ctx.text))
          => writes = << >> /\ ctx.output_path = None

\* every step before Save returned, the text handed to Save is empty, the run
\* failed there
C16_Witness ==
    /\ pc = "failed"
    /\ steps[idx] = "Save"
    /\ Len(returned) = idx - 1
    /\ ctx.text = Some(<< >>)
    /\ raised = Some(ERR_TEXT)
    /\ writes = << >>

\* a run that wrote its output
C16_WitnessWritten ==
    /\ pc = "completed"
    /\ Len(writes) = 1
    /\ IsSome(ctx.output_path)

\* C17: while a split transcription succeeds, the pieces are transcribed one
\* at a time in their order; when piece k + 1 is next, the results of pieces
\* 1..k are merged and their files are gone while the files of the pieces from
\* k + 1 on are still there; when the call has returned, no piece file and no
\* temporary directory is left.
C17_PiecesConsumedInOrder ==
    (SplitRun /\ tstatus \in { "running", "returned" }) =>
        /\ next_piece \in 1..(Len(segment_files) + 1)
        /\ piece_files = next_piece..Len(segment_files)
        /\ Len(backend_log) = next_piece - 1
        /\ \A i \in 1..Len(origin) : origin[i].piece < next_piece
        /\ \A i \in 1..(Len(origin) - 1) : origin[i].piece <= origin[i + 1].piece
        /\ tstatus = "running" => temp_dir
        /\ tstatus = "returned" =>
              /\ next_piece = Len(segment_files) + 1
              /\ piece_files = {}
              /\ ~temp_dir

\* a split into three pieces that has returned
C17_Witness ==
    /\ SplitRun
    /\ tstatus = "returned"
    /\ Len(segment_files) = 3
    /\ Len(backend_log) = 3
    /\ IsSome(ctx.segments)
    /\ piece_files = {} /\ ~temp_dir

\* the pieces for which the backend returned no segment
EmptyPieces == { k \in 1..Len(backend_log) : backend_log[k] = "empty" }

\* C18: a piece for which the backend returns no segment adds no segment to
\* the output, and the running offset still grows by that piece's duration:
\* the offset is the sum of the durations of all the pieces done, and every
\* segment is shifted by the sum of the durations of all the pieces before
\* its own, the empty ones included.
C18_EmptyPieceKeepsOffset ==
    (SplitAzure /\ tstatus \in { "running", "returned" }) =>
        /\ time_offset = DurationBefore(next_piece)
        /\ \A i \in 1..Len(all_results) :
              /\ origin[i].piece \notin EmptyPieces
              /\ all_results[i].start =
                     origin[i].start + DurationBefore(origin[i].piece)
              /\ all_results[i].end =
                     origin[i].end + DurationBefore(origin[i].piece)
        /\ IsSome(ctx.segments) => Transcript = all_results

\* the first two pieces are silent, the third has a segment: it is shifted by
\* the durations of both
C18_Witness ==
    /\ SplitAzure
    /\ IsSome(ctx.segments)
    /\ EmptyPieces = { 1, 2 }
    /\ \E i \in 1..Len(Transcript) :
          /\ origin[i].piece = 3
          /\ Transcript[i].start = origin[i].start + 2 * SEGMENT_DURATION_MS

----------------------------------------------------------------------------
\* Claims about one transcribe_segment call

\* a completion event (session stopped, or canceled) was delivered
CompletionDelivered == sdk_phase \in { "canceled", "stopped" }

\* a canceled event with this reason was delivered
CanceledWith(reason) ==
    /\ sdk_session # << >>
    /\ sdk_session.ending = reason
    /\ sdk_phase \in { "canceled", "stopped" }

\* C21: transcribe_segment returns only after a completion event (session
\* stopped, or canceled) has set the completion flag; before the flag is set
\* the caller is only polling (or has not started the recognizer yet) and has
\* returned nothing; and once a completion event has been delivered the
\* blocked caller eventually returns.
C21_ReturnsOnlyAfterCompletion ==
    /\ [](seg_done => CompletionDelivered)
    /\ [](seg_pc \in { "stopping", "return", "returned" } => seg_done)
    /\ [](~seg_done => seg_ret = None /\ seg_pc \in { "idle", "start", "polling" })
    /\ [](seg_ret # None => seg_done /\ seg_pc = "returned")
    /\ (CompletionDelivered ~> (seg_pc = "returned" /\ seg_ret # None))

\* the call returned after a session that ended with a session-stopped event
\* alone, having delivered two events
C21_Witness ==
    /\ seg_pc = "returned"
    /\ seg_ret # None
    /\ seg_done
    /\ sdk_session.ending = "SessionStopped"
    /\ Len(sdk_session.events) = 2

\* C22: when the recognizer reports a recognition failure (a canceled event
\* with reason Error ends the session), transcribe_segment does not return:
\* the failure is raised, and the segments collected so far are never handed
\* back as a successful result.
C22_RecognitionFailureRaises ==
    CanceledWith("Error") => seg_ret = None

\* C23: the list transcribe_segment returns holds exactly one segment per
\* recognized-speech event delivered before the caller saw the completion,
\* in delivery order, with start = offset / 10,000,000 s and
\* end = (offset + duration) / 10,000,000 s (times held in ms, 10,000 ticks
\* each) and the event's text; an event with another reason adds nothing;
\* whatever the interleaving of the callbacks with the polling caller, none
\* is lost, duplicated or reordered.
Delivered == SubSeq(sdk_session.events, 1, sdk_next - 1)

IsSpeech(evt) == evt.reason = "RecognizedSpeech"

SegmentsOf(segments, events) ==
    /\ Len(segments) = Len(events)
    /\ \A i \in 1..Len(events) :
          /\ segments[i].start * 10000 = events[i].offset
          /\ segments[i].end * 10000 = events[i].offset + events[i].duration
          /\ segments[i].text = events[i].text

C23_OneSegmentPerSpeechEvent ==
    seg_pc # "idle" =>
        /\ SegmentsOf(seg_results, SelectSeq(Delivered, IsSpeech))
        /\ seg_pc = "returned" => seg_ret = Some(seg_results)

\* the call returned after an event without speech and the utterance at
\* 50,000,000 ticks lasting 20,000,000: one segment, from 5.0 s to 7.0 s
C23_Witness ==
    /\ seg_pc = "returned"
    /\ Len(Delivered) = 2
    /\ ~IsSpeech(Delivered[1])
    /\ Delivered[2].offset = 50000000 /\ Delivered[2].duration = 20000000
    /\ Len(Get(seg_ret)) = 1
    /\ Get(seg_ret)[1].start = 5000 /\ Get(seg_ret)[1].end = 7000

----------------------------------------------------------------------------
\* Claims about the streamed transcription

IsStreamCall == fn = "transcribe_streaming" /\ called

\* the index of the first line that is exactly "data: [DONE]", or one past
\* the last line
DoneAt(lines) ==
    LET dones == { i \in 1..Len(lines) :
                     lines[i].prefix = DATA_PREFIX /\ lines[i].kind = "done" }
    IN IF dones = {} THEN Len(lines) + 1
       ELSE CHOOSE i \in dones : \A j \in dones : i <= j

\* what a line adds: the content of its first choice's delta when the line
\* has the prefix and holds a JSON object with such a content, else nothing
Contribution(line) ==
    IF /\ line.prefix = DATA_PREFIX
       /\ line.kind = "json"
       /\ line.choices # None
       /\ Get(line.choices) # << >>
       /\ Get(line.choices)[1].delta # None
       /\ Get(Get(line.choices)[1].delta).content # None
    THEN Get(Get(Get(line.choices)[1].delta).content)
    ELSE << >>

Streamed(lines) ==
    Concat([ i \in 1..(DoneAt(lines) - 1) |-> Contribution(lines[i]) ])

\* C24: the streamed transcription returns exactly one segment with
\* start = end = 0 whose text is the normalisation of the contents of the
\* well-formed deltas received before the first "data: [DONE]" line,
\* concatenated in order; lines after [DONE], lines without the "data: "
\* prefix and lines that are no JSON add nothing, and what was shown while
\* streaming has no part in the result.
C24_StreamedTextInOrder ==
    IsStreamCall =>
        /\ Len(ret.segments) = 1
        /\ ret.segments[1].start = 0
        /\ ret.segments[1].end = 0
        /\ IsCleanOf(ret.segments[1].text, Streamed(arg.lines))

\* two deltas, the [DONE] line, and a delta after it: the text is that of
\* the two, and something was shown
C24_Witness ==
    /\ IsStreamCall
    /\ Len(arg.lines) = 3
    /\ DoneAt(arg.lines) = 3
    /\ Contribution(arg.lines[1]) # << >>
    /\ Contribution(arg.lines[2]) # << >>
    /\ ret.segments[1].text # << >>
    /\ ret.live # << >>

\* a delta after the [DONE] line is left out
C24_WitnessAfterDone ==
    /\ IsStreamCall
    /\ Len(arg.lines) = 3
    /\ DoneAt(arg.lines) = 2
    /\ Contribution(arg.lines[3]) # << >>
    /\ ret.segments[1].text = << "a" >>

----------------------------------------------------------------------------
\* Claims about the loop of split_text_into_chunks

\* C25: split_text_into_chunks terminates for every text and every target
\* size of at least 1; every iteration that goes round again has moved start
\* forward by at least one character; and every chunk returned for a text
\* longer than the target size is non-empty and at most the target size long.
C25_TerminatesWithBoundedChunks ==
    /\ <>(split_pc = "returned")
    /\ [][(split_pc = "loop" /\ split_pc' = "loop") => split_start' >= split_start + 1]_vars
    /\ []((split_pc = "returned" /\ Len(split_arg.text) > split_arg.chunk_size) =>
            \A i \in 1..Len(split_chunks) :
                /\ Len(split_chunks[i]) >= 1
                /\ Len(split_chunks[i]) <= split_arg.chunk_size)

\* a call went round the loop three times: two cuts and the rest
C25_Witness ==
    /\ split_pc = "returned"
    /\ Len(split_arg.text) > split_arg.chunk_size
    /\ Len(split_chunks) = 3
    /\ split_start > 0

----------------------------------------------------------------------------
\* Claims about the fields of the context

ValidationErrors ==
    { ERR_SOURCE_URL, ERR_AUDIO_PATH, ERR_FORMAT_INPUT, ERR_SKIP_INPUT, ERR_TEXT }

\* C26: every step writes only its own fields of the context.  A step that
\* returned left segments as they were unless it is Transcribe, text unless
\* it is Format or Skip Format, output_path unless it is Save; Transcribe,
\* Format and Skip Format left an episode_title that was already set as it
\* was; and after a step failed its input validation (source_url, audio_path,
\* segments or text_path, text missing) the context is field for field the
\* one the step was entered with.
C26_StepsWriteOwnFields ==
    /\ \A k \in 1..Len(returned) :
          LET name == steps[returned[k].step]
              before == entered[returned[k].step].ctx
              after == returned[k].ctx
          IN /\ name # "Transcribe" => after.segments = before.segments
             /\ name \notin Formatters => after.text = before.text
             /\ name # "Save" => after.output_path = before.output_path
             /\ (name \in { "Transcribe" } \cup Formatters /\ Truthy(before.episode_title))
                    => after.episode_title = before.episode_title
    /\ \A k \in 1..Len(thrown) :
          thrown[k].err \in ValidationErrors => ctx = entered[thrown[k].step].ctx

\* a run of five steps went through with the title the download gave it:
\* Transcribe and the formatter met a title that was set and kept it
C26_Witness ==
    /\ pc = "completed"
    /\ Len(steps) = 5
    /\ entered[2].ctx.episode_title = Some(EPISODE_TITLE)
    /\ ctx.episode_title = Some(EPISODE_TITLE)
    /\ IsSome(ctx.segments) /\ IsSome(ctx.text) /\ IsSome(ctx.output_path)

\* a formatter read a text file for a context that came with a title, and
\* kept the title
C26_WitnessGivenTitle ==
    /\ Len(returned) >= 1
    /\ steps[1] \in Formatters
    /\ entered[1].ctx.episode_title = Some(GIVEN_TITLE)
    /\ returned[1].ctx.episode_title = Some(GIVEN_TITLE)
    /\ IsSome(returned[1].ctx.text)

\* Save failed its validation and the context is the one it was entered with
C26_WitnessValidation ==
    /\ pc = "failed"
    /\ thrown # << >>
    /\ thrown[Len(thrown)].err = ERR_TEXT
    /\ ctx = entered[idx].ctx

====
